---- MODULE Spec2Model ----
(***************************************************************************)
(* HTTP request catcher (src/app.py): the catch_all handler, the shared    *)
(* requests_log list and the page rendered from it.                        *)
(*                                                                         *)
(* One handler execution is a sequence of steps on the shared list:        *)
(* extract the record, insert(0, record), test len > 50, pop(), then the   *)
(* template's three reads of the list (|length, the {% if %} test, the     *)
(* {% for %} iteration, one element per step).  Each step is atomic under  *)
(* the interpreter lock; steps of different handler threads interleave.    *)
(*                                                                         *)
(* Three specifications share the actions:                                 *)
(*   SeqSpec      one handler at a time, from the empty log                *)
(*   ConcSpec     NThreads handlers interleaving                           *)
(*   ExtractSpec  one request drawn from AllRequests, body extraction and  *)
(*                rendering of the record                                  *)
(***************************************************************************)
EXTENDS Integers, Sequences, FiniteSets, TLC

VARIABLES
    requests_log,   \* the module-level list (app.py line 10)
    pc,             \* per thread: position of its handler
    request,        \* per thread: flask's context-local request
    cur,            \* per thread: current_request_data
    rlen,           \* per thread: value shown in the heading, {{ requests_log|length }}
    ridx,           \* per thread: index of the list iterator of {% for %}
    cards,          \* per thread: request cards emitted so far
    status,         \* per thread: status of the response being returned
    arrived,        \* number of requests received
    completed,      \* number of responses returned
    prior,          \* requests handled (one at a time) before the modelled window
    inserted,       \* history: record ids in the order they were inserted
    underpop,       \* history: a pop() was applied to a list of <= Cap entries
    snaps           \* per thread, history: values the list had while it rendered

vars == <<requests_log, pc, request, cur, rlen, ridx, cards, status,
          arrived, completed, prior, inserted, underpop, snaps>>

(***************************************************************************)
(* Bounds and program constants                                            *)
(***************************************************************************)
Cap == 50

MaxRequests == 52

MaxNew == 2

NThreads == 2

Threads == 1..NThreads

Min(a, b) == IF a <= b THEN a ELSE b

(***************************************************************************)
(* Python values a record's body can hold.  Every value has the same       *)
(* shape: a type tag t, the text s of a str, the number n of an int/bool,  *)
(* the items m of a dict or list.                                          *)
(***************************************************************************)
PyNone == [t |-> "none", s |-> "", n |-> 0, m |-> <<>>]

PyStr(x) == [t |-> "str", s |-> x, n |-> 0, m |-> <<>>]

PyInt(k) == [t |-> "int", s |-> "", n |-> k, m |-> <<>>]

PyBool(b) == [t |-> "bool", s |-> "", n |-> IF b THEN 1 ELSE 0, m |-> <<>>]

PyDict(items) == [t |-> "dict", s |-> "", n |-> 0, m |-> items]

\* An exception of class e propagating out of a call.
PyRaiseOf(e) == [t |-> "raise", s |-> e, n |-> 0, m |-> <<>>]

\* The ValueError of a failed parse (json's JSONDecodeError is one).
PyRaise == PyRaiseOf("ValueError")

\* Python truthiness, as jinja's `or` applies it.
PyTruthy(v) ==
    CASE v.t = "none" -> FALSE
      [] v.t = "str"  -> v.s # ""
      [] v.t = "int"  -> v.n # 0
      [] v.t = "bool" -> v.n # 0
      [] v.t = "dict" -> v.m # <<>>
      [] OTHER        -> TRUE

(***************************************************************************)
(* Requests                                                                *)
(***************************************************************************)
Methods == {"GET", "POST", "PUT", "DELETE", "PATCH", "OPTIONS"}

\* Content types by what the handler can tell apart: request.is_json,
\* a form type (werkzeug parses the stream into request.form), anything else.
ContentTypes == {"json", "form", "other"}

\* Stands for a JSON text of arrays nested deeper than the interpreter's
\* recursion limit ('[' repeated 100000 times and the matching ']').
DeepJson == "[[[[...]]]]"

\* Stands for a form payload beyond werkzeug's form limits (more than
\* max_form_parts = 1000 parts, or more than max_form_memory_size bytes).
HugeForm == "a=1&a=1&..."

Payloads ==
    {"", "&", "a=1&b=2", "{\"x\":1}", "{x:}", "null", "0", "false", DeepJson, HugeForm}

\* The path of the request URL after the leading '/': the root, a path only
\* the catch-all rule matches, a path under /static/.
Paths == {"", "foo", "static/x"}

QueryStrings == {<<>>, <<[k |-> "a", v |-> PyStr("1")], [k |-> "b", v |-> PyStr("2")]>>}

\* The X-Forwarded-For header: absent, present with an empty value, present.
XffAbsent == [present |-> FALSE, value |-> ""]

XffHeaders == {XffAbsent, [present |-> TRUE, value |-> ""], [present |-> TRUE, value |-> "9.9.9.9"]}

PeerAddr == "127.0.0.1"

AllRequests ==
    [method : Methods, path : Paths, ctype : ContentTypes, payload : Payloads,
     args : QueryStrings, xff : XffHeaders, remote_addr : {PeerAddr}]

\* A plain GET without query string, the request of SeqSpec and ConcSpec.
PlainGet ==
    [method |-> "GET", path |-> "", ctype |-> "other", payload |-> "",
     args |-> <<>>, xff |-> XffAbsent, remote_addr |-> PeerAddr]

NoRequest ==
    [method |-> "", path |-> "", ctype |-> "", payload |-> "", args |-> <<>>,
     xff |-> XffAbsent, remote_addr |-> ""]

(***************************************************************************)
(* Routing (app.py lines 6 and 137-138)                                    *)
(***************************************************************************)
\* Flask(__name__) keeps the default static_folder and so registers the rule
\* /static/<path:filename> for GET (with HEAD and automatic OPTIONS).  It is
\* more specific than /<path:path> and wins for the methods it allows; for
\* the other methods the catch-all rule matches.
StaticRouted(r) == r.path = "static/x" /\ r.method \in {"GET", "OPTIONS"}

\* The static view's answer: no such file for GET, the automatic OPTIONS
\* response otherwise.  catch_all is not called.
StaticStatus(r) == IF r.method = "GET" THEN 404 ELSE 200

\* The response to an exception that leaves catch_all: the HTTPException's
\* own status, 500 for any other exception.
ErrorStatus(e) == IF e.s = "RequestEntityTooLarge" THEN 413 ELSE 500

(***************************************************************************)
(* Body extraction (app.py lines 147-165)                                  *)
(***************************************************************************)
\* json.loads on the sample payloads: the parsed value, the decoder's
\* ValueError for text that is not JSON, RecursionError for DeepJson.
JsonLoads(p) ==
    CASE p = "{\"x\":1}" -> PyDict(<<[k |-> "x", v |-> PyInt(1)]>>)
      [] p = "null"      -> PyNone
      [] p = "0"         -> PyInt(0)
      [] p = "false"     -> PyBool(FALSE)
      [] p = DeepJson    -> PyRaiseOf("RecursionError")
      [] OTHER           -> PyRaise

\* request.is_json: the declared content type indicates JSON.
IsJson(r) == r.ctype = "json"

\* request.get_json(silent=True): the parsed value, None when parsing fails
\* with a ValueError; any other exception propagates.
GetJson(r) ==
    IF JsonLoads(r.payload) = PyRaise THEN PyNone ELSE JsonLoads(r.payload)

\* urllib's parse_qsl(keep_blank_values=True) on the sample payloads: empty
\* segments between '&' give no field, a segment without '=' is a key with a
\* blank value.
ParseQsl(p) ==
    CASE p = ""        -> <<>>
      [] p = "&"       -> <<>>
      [] p = "a=1&b=2" -> <<[k |-> "a", v |-> PyStr("1")], [k |-> "b", v |-> PyStr("2")]>>
      [] OTHER         -> <<[k |-> p, v |-> PyStr("")]>>

\* request.form.to_dict(): werkzeug parses the stream only for a form
\* content type; any other type leaves the form empty and the stream unread.
\* A form beyond the parser's limits raises RequestEntityTooLarge.
RequestForm(r) ==
    IF r.ctype # "form" THEN PyDict(<<>>)
    ELSE IF r.payload = HugeForm THEN PyRaiseOf("RequestEntityTooLarge")
    ELSE PyDict(ParseQsl(r.payload))

\* request.get_data(as_text=True) called after request.form was read: form
\* parsing consumes the stream without caching it, so nothing is left to read.
GetDataAfterForm(r) == IF r.ctype = "form" THEN "" ELSE r.payload

\* request.get_data(as_text=True) after get_json, which cached the payload.
GetDataAfterJson(r) == r.payload

\* The body variable at line 178, with what the branch read on the way.
ExtractBody(r) ==
    IF r.method \in {"POST", "PUT", "PATCH"}
    THEN IF IsJson(r)
         THEN [body |-> IF GetJson(r) = PyNone
                        THEN PyStr(GetDataAfterJson(r))
                        ELSE GetJson(r),
               form_read |-> FALSE, args_read |-> FALSE]
         ELSE [body |-> IF RequestForm(r).t = "raise" \/ RequestForm(r).m # <<>>
                        THEN RequestForm(r)
                        ELSE PyStr(GetDataAfterForm(r)),
               form_read |-> TRUE, args_read |-> FALSE]
    ELSE IF r.method = "GET"
         THEN [body |-> PyDict(r.args), form_read |-> FALSE, args_read |-> TRUE]
         ELSE [body |-> PyStr(""), form_read |-> FALSE, args_read |-> FALSE]

\* request.headers.get('X-Forwarded-For', request.remote_addr)
ClientIp(r) == IF r.xff.present THEN r.xff.value ELSE r.remote_addr

\* current_request_data (lines 171-179).  id stands for the record's identity
\* (arrival number); path is f"/{path}"; timestamp, user agent and header
\* text are copied from the request and read by no step of the handler.
MakeRecord(r, id) ==
    [id |-> id, method |-> r.method, path |-> <<"/", r.path>>, ip |-> ClientIp(r),
     body |-> ExtractBody(r).body,
     form_read |-> ExtractBody(r).form_read,
     args_read |-> ExtractBody(r).args_read]

NoRecord ==
    [id |-> 0, method |-> "", path |-> <<"", "">>, ip |-> "", body |-> PyNone,
     form_read |-> FALSE, args_read |-> FALSE]

(***************************************************************************)
(* The list operations (lines 182-186)                                     *)
(***************************************************************************)
\* requests_log.insert(0, current_request_data)
Prepend(rec, log) == <<rec>> \o log

\* Faulty variant: >= instead of >.
OverflowGe(log) == Len(log) >= Cap

\* len(requests_log) > 50
Overflow(log) == Len(log) > Cap

\* Faulty variant: pop(0) instead of pop().
PopFirst(log) == Tail(log)

\* requests_log.pop(): drops the last element.
PopLast(log) == SubSeq(log, 1, Len(log) - 1)

\* The list after k plain requests handled one at a time from the empty list:
\* the last Min(k, Cap) records, newest first (what SeqSpec reaches, claim C2).
SeqLog(k) == [i \in 1..Min(k, Cap) |-> MakeRecord(PlainGet, k - i + 1)]

(***************************************************************************)
(* Rendering (HTML_TEMPLATE, lines 106-131)                                *)
(***************************************************************************)
Placeholder == [kind |-> "placeholder", value |-> PyStr("No body or query parameters received.")]

Shown(v) == [kind |-> "value", value |-> v]

\* {{ req.body or 'No body or query parameters received.' }}
BodyBlock(body) == IF PyTruthy(body) THEN Shown(body) ELSE Placeholder

\* One request card (lines 110-125).
Card(rec) ==
    [id |-> rec.id, method |-> rec.method, ip |-> rec.ip,
     body_block |-> BodyBlock(rec.body)]

Rendering == {"render_len", "render_if", "render_for"}

\* snaps after the list changes to l: every thread inside render_template_string
\* has now also seen l.
Track(l) ==
    [u \in Threads |-> IF pc[u] \in Rendering THEN snaps[u] \cup {l} ELSE snaps[u]]

(***************************************************************************)
(* Initial states                                                          *)
(***************************************************************************)
\* The process just started: requests_log = [] (line 10), no request in flight.
Init ==
    /\ prior = 0
    /\ requests_log = <<>>
    /\ arrived = 0
    /\ completed = 0
    /\ inserted = <<>>
    /\ underpop = FALSE
    /\ pc = [t \in Threads |-> "idle"]
    /\ request = [t \in Threads |-> NoRequest]
    /\ cur = [t \in Threads |-> NoRecord]
    /\ rlen = [t \in Threads |-> 0]
    /\ ridx = [t \in Threads |-> 0]
    /\ cards = [t \in Threads |-> <<>>]
    /\ status = [t \in Threads |-> 0]
    /\ snaps = [t \in Threads |-> {}]

(***************************************************************************)
(* The handler, step by step                                               *)
(***************************************************************************)
\* Lines 137-179: the request is routed; if the catch-all rule takes it,
\* catch_all is entered and the record is built.  A request the static rule
\* takes is answered without catch_all; an exception raised while the body is
\* extracted ends catch_all with an error response.  Neither logs a record
\* nor renders the page.
Arrive(t, r) ==
    /\ pc[t] = "idle"
    /\ arrived' = arrived + 1
    /\ request' = [request EXCEPT ![t] = r]
    /\ rlen' = [rlen EXCEPT ![t] = 0]
    /\ ridx' = [ridx EXCEPT ![t] = 0]
    /\ cards' = [cards EXCEPT ![t] = <<>>]
    /\ snaps' = [snaps EXCEPT ![t] = {}]
    /\ IF StaticRouted(r)
       THEN /\ pc' = [pc EXCEPT ![t] = "respond"]
            /\ status' = [status EXCEPT ![t] = StaticStatus(r)]
            /\ cur' = [cur EXCEPT ![t] = NoRecord]
       ELSE IF ExtractBody(r).body.t = "raise"
       THEN /\ pc' = [pc EXCEPT ![t] = "respond"]
            /\ status' = [status EXCEPT ![t] = ErrorStatus(ExtractBody(r).body)]
            /\ cur' = [cur EXCEPT ![t] = NoRecord]
       ELSE /\ pc' = [pc EXCEPT ![t] = "insert"]
            /\ status' = [status EXCEPT ![t] = 0]
            /\ cur' = [cur EXCEPT ![t] = MakeRecord(r, arrived + 1)]
    /\ UNCHANGED <<requests_log, completed, prior, inserted, underpop>>

\* Line 182.
Insert(t) ==
    /\ pc[t] = "insert"
    /\ requests_log' = Prepend(cur[t], requests_log)
    /\ inserted' = Append(inserted, cur[t].id)
    /\ snaps' = Track(Prepend(cur[t], requests_log))
    /\ pc' = [pc EXCEPT ![t] = "check"]
    /\ UNCHANGED <<request, cur, rlen, ridx, cards, status, arrived, completed,
                   prior, underpop>>

\* Line 185; without overflow the handler goes on to render_template_string.
Check(t) ==
    /\ pc[t] = "check"
    /\ IF Overflow(requests_log)
       THEN /\ pc' = [pc EXCEPT ![t] = "pop"]
            /\ snaps' = snaps
       ELSE /\ pc' = [pc EXCEPT ![t] = "render_len"]
            /\ snaps' = [snaps EXCEPT ![t] = {requests_log}]
    /\ UNCHANGED <<requests_log, request, cur, rlen, ridx, cards, status,
                   arrived, completed, prior, inserted, underpop>>

\* Line 186, then on to render_template_string.
Pop(t) ==
    /\ pc[t] = "pop"
    /\ requests_log' = PopLast(requests_log)
    /\ underpop' = (underpop \/ Len(requests_log) <= Cap)
    /\ snaps' = [Track(PopLast(requests_log)) EXCEPT ![t] = {PopLast(requests_log)}]
    /\ pc' = [pc EXCEPT ![t] = "render_len"]
    /\ UNCHANGED <<request, cur, rlen, ridx, cards, status, arrived, completed,
                   prior, inserted>>

\* Line 106: {{ requests_log|length }}.
RenderLen(t) ==
    /\ pc[t] = "render_len"
    /\ rlen' = [rlen EXCEPT ![t] = Len(requests_log)]
    /\ pc' = [pc EXCEPT ![t] = "render_if"]
    /\ UNCHANGED <<requests_log, request, cur, ridx, cards, status, arrived,
                   completed, prior, inserted, underpop, snaps>>

\* Line 108: {% if requests_log %}; the else branch is the empty-state card.
RenderIf(t) ==
    /\ pc[t] = "render_if"
    /\ IF requests_log # <<>>
       THEN /\ pc' = [pc EXCEPT ![t] = "render_for"]
            /\ status' = status
       ELSE /\ pc' = [pc EXCEPT ![t] = "respond"]
            /\ status' = [status EXCEPT ![t] = 200]
    /\ ridx' = [ridx EXCEPT ![t] = 0]
    /\ UNCHANGED <<requests_log, request, cur, rlen, cards, arrived, completed,
                   prior, inserted, underpop, snaps>>

\* Line 109: one step of the list iterator: the element at the iterator's
\* index of the list as it is now, or the end of the loop when the index has
\* reached the list's current length.
RenderFor(t) ==
    /\ pc[t] = "render_for"
    /\ IF ridx[t] < Len(requests_log)
       THEN /\ cards' = [cards EXCEPT ![t] = Append(@, Card(requests_log[ridx[t] + 1]))]
            /\ ridx' = [ridx EXCEPT ![t] = @ + 1]
            /\ pc' = pc
            /\ status' = status
       ELSE /\ pc' = [pc EXCEPT ![t] = "respond"]
            /\ status' = [status EXCEPT ![t] = 200]
            /\ UNCHANGED <<cards, ridx>>
    /\ UNCHANGED <<requests_log, request, cur, rlen, arrived, completed, prior,
                   inserted, underpop, snaps>>

\* Line 189: the response is returned.
Respond(t) ==
    /\ pc[t] = "respond"
    /\ completed' = completed + 1
    /\ pc' = [pc EXCEPT ![t] = "idle"]
    /\ UNCHANGED <<requests_log, request, cur, rlen, ridx, cards, status, arrived,
                   prior, inserted, underpop, snaps>>

\* k plain requests are handled one at a time, each to completion, before
\* anything else happens: k runs of the handler taken as one step.
Earlier(k) ==
    /\ arrived = 0
    /\ \A t \in Threads : pc[t] = "idle"
    /\ k > 0
    /\ prior' = k
    /\ arrived' = k
    /\ completed' = k
    /\ requests_log' = SeqLog(k)
    /\ inserted' = [i \in 1..k |-> i]
    /\ UNCHANGED <<pc, request, cur, rlen, ridx, cards, status, underpop, snaps>>

Step(t) ==
    \/ Insert(t)
    \/ Check(t)
    \/ Pop(t)
    \/ RenderLen(t)
    \/ RenderIf(t)
    \/ RenderFor(t)
    \/ Respond(t)

(***************************************************************************)
(* Specifications                                                          *)
(***************************************************************************)
\* Requests handled one at a time, from the empty list.
SeqNext ==
    \/ arrived < MaxRequests /\ Arrive(1, PlainGet)
    \/ Step(1)

SeqSpec == Init /\ [][SeqNext]_vars

\* NThreads handler threads (the development server is threaded) serving
\* MaxNew plain requests, from the empty list or after ConcPrior earlier ones.
ConcPrior == {Cap - 1}

ConcNext ==
    \/ \E k \in ConcPrior : Earlier(k)
    \/ \E t \in Threads :
          \/ arrived - prior < MaxNew /\ Arrive(t, PlainGet)
          \/ Step(t)

ConcSpec == Init /\ [][ConcNext]_vars

\* One request, any of AllRequests, on the empty list or after ExtractPrior
\* earlier plain ones.
ExtractPrior == {Cap - 1, Cap}

ExtractNext ==
    \/ \E k \in ExtractPrior : Earlier(k)
    \/ \E r \in AllRequests : arrived = prior /\ Arrive(1, r)
    \/ Step(1)

ExtractSpec == Init /\ [][ExtractNext]_vars

(***************************************************************************)
(* Claims                                                                  *)
(***************************************************************************)
\* The list SeqSpec is to hold after N plain requests: the last Min(N, Cap)
\* records, newest first.
NewestFirst(N) == [i \in 1..Min(N, Cap) |-> MakeRecord(PlainGet, N - i + 1)]

\* The cards of a page rendered from list l.
CardsOf(l) == [i \in 1..Len(l) |-> Card(l[i])]

AllIdle == \A t \in Threads : pc[t] = "idle"

\* C1: with requests handled one at a time, after the N-th request the list
\* holds Min(N, 50) records, and the N-th response shows that count in its
\* heading and lists that many cards; the length is never above 50 after a
\* completed request.
C1_LengthIsMin ==
    /\ pc[1] = "respond" =>
          /\ Len(requests_log) = Min(arrived, Cap)
          /\ rlen[1] = Min(arrived, Cap)
          /\ Len(cards[1]) = Min(arrived, Cap)
    /\ pc[1] = "idle" =>
          /\ Len(requests_log) = Min(completed, Cap)
          /\ Len(requests_log) <= Cap

C1_Witness ==
    /\ pc[1] = "respond"
    /\ arrived = Cap + 2
    /\ Len(cards[1]) = Cap
    /\ Len(requests_log) = Cap

\* C2: with requests R1..RN handled one at a time, the list after RN is the
\* last Min(N, 50) records in reverse arrival order; right after the insert
\* the new record is at index 0 in front of the unchanged older records, and
\* the trim evicts only the oldest.
C2_NewestFirstWindow ==
    /\ pc[1] \in {"idle", "respond"} \cup Rendering =>
          requests_log = NewestFirst(arrived)
    /\ pc[1] = "check" =>
          /\ requests_log[1] = cur[1]
          /\ Tail(requests_log) = NewestFirst(arrived - 1)

C2_Witness ==
    /\ pc[1] = "respond"
    /\ arrived = Cap + 1
    /\ Len(requests_log) = Cap
    /\ requests_log[1].id = Cap + 1
    /\ requests_log[Cap].id = 2

\* C3: with handlers interleaving, no render step observes a list of more
\* than 50 entries: neither the length read for the heading nor the number of
\* cards listed exceeds 50.
C3_RenderNeverSeesOverfull ==
    \A t \in Threads :
        pc[t] \in Rendering \cup {"respond"} =>
            /\ rlen[t] <= Cap
            /\ Len(cards[t]) <= Cap

\* C4: in every interleaving a pop is only applied to a list of more than 50
\* entries, so once N >= 50 requests have all completed the list holds exactly
\* 50 records, the 50 most recently inserted ones.
C4_TrimOnlyBeyondLimit ==
    /\ ~underpop
    /\ (AllIdle /\ completed >= Cap) =>
          /\ Len(requests_log) = Cap
          /\ \A i \in (Len(inserted) - Cap + 1)..Len(inserted) :
                \E j \in 1..Len(requests_log) : requests_log[j].id = inserted[i]

\* C5: every request (any of the six methods, any path, content type and
\* payload, any fill level of the list) is handled to completion: the handler
\* can always take its next step, the response has status 200 and carries the
\* page rendered from the list, and exactly one record of the request was
\* prepended; no request is rejected and no body gives an error response.
C5_EveryRequestAnswered200 ==
    /\ pc[1] # "idle" => ENABLED Step(1)
    /\ status[1] \in {0, 200}
    /\ pc[1] = "respond" =>
          /\ status[1] = 200
          /\ cur[1] # NoRecord
          /\ requests_log # <<>>
          /\ requests_log[1] = cur[1]
          /\ Cardinality({i \in 1..Len(requests_log) : requests_log[i].id = cur[1].id}) = 1
          /\ Len(requests_log) = Min(prior + 1, Cap)
          /\ cards[1] = CardsOf(requests_log)

\* C6: for POST, PUT or PATCH with a JSON content type the record's body is
\* the parsed value whenever the payload parses (object, number, false, null,
\* ...) and the raw payload text when it does not; the form is never read.
C6_JsonBodyIsParsedValue ==
    \A t \in Threads :
        (pc[t] # "idle" /\ cur[t] # NoRecord
            /\ request[t].method \in {"POST", "PUT", "PATCH"}
            /\ request[t].ctype = "json") =>
            /\ cur[t].body = IF JsonLoads(request[t].payload).t # "raise"
                             THEN JsonLoads(request[t].payload)
                             ELSE PyStr(request[t].payload)
            /\ ~cur[t].form_read

\* C7: the body is decided by method: GET gives the query-string mapping;
\* POST/PUT/PATCH without JSON content type give the form mapping when it has
\* a field and otherwise the raw payload text, never the query string; any
\* other method leaves the body empty.
C7_BodyByMethod ==
    \A t \in Threads :
        (pc[t] # "idle" /\ cur[t] # NoRecord) =>
            CASE request[t].method = "GET" ->
                    cur[t].body = PyDict(request[t].args)
              [] request[t].method \in {"POST", "PUT", "PATCH"}
                    /\ request[t].ctype # "json" ->
                    /\ cur[t].body = IF RequestForm(request[t]).m # <<>>
                                     THEN RequestForm(request[t])
                                     ELSE PyStr(request[t].payload)
                    /\ ~cur[t].args_read
              [] request[t].method \in {"DELETE", "OPTIONS"} ->
                    cur[t].body = PyStr("")
              [] OTHER -> TRUE

\* C8: the record's client address is the X-Forwarded-For value when the
\* header is present and non-empty, and the peer address otherwise (header
\* absent, or present with an empty value).
C8_ClientAddress ==
    \A t \in Threads :
        (pc[t] # "idle" /\ cur[t] # NoRecord) =>
            cur[t].ip = IF request[t].xff.present /\ request[t].xff.value # ""
                        THEN request[t].xff.value
                        ELSE request[t].remote_addr

\* The bodies the claim C9 calls empty or absent.
EmptyBody(b) == b = PyNone \/ b = PyStr("") \/ b = PyDict(<<>>)

\* C9: each listed record's body block is the placeholder when the captured
\* body is empty or absent and the captured value itself otherwise (also for
\* a parsed 0 or false); it is never a null or an empty value.
C9_BodyBlock ==
    \A i \in 1..Len(cards[1]) :
        /\ cards[1][i].body_block =
              IF EmptyBody(requests_log[i].body)
              THEN Placeholder
              ELSE Shown(requests_log[i].body)
        /\ cards[1][i].body_block # Shown(PyNone)
        /\ cards[1][i].body_block # Shown(PyStr(""))

\* C10: each response is rendered from one point-in-time view of the list,
\* also under interleaving: the heading's count equals the number of cards,
\* the cards are a state the list had at one instant during the rendering,
\* and the responding request's own record is among them.
C10_ConsistentView ==
    \A t \in Threads :
        (pc[t] = "respond" /\ status[t] = 200) =>
            /\ rlen[t] = Len(cards[t])
            /\ \E l \in snaps[t] : cards[t] = CardsOf(l)
            /\ \E i \in 1..Len(cards[t]) : cards[t][i].id = cur[t].id

====
